---- MODULE Spec2Model ----
(***************************************************************************)
(* Oral Exam Bot dashboard (src/dashboard.py): the page script, its       *)
(* session state, and the string parsing it applies to model output and   *)
(* to uploaded files.                                                      *)
(*                                                                         *)
(* A Python str is a sequence of one-character strings; a Python list of  *)
(* str is a sequence of such sequences.  Values whose type the code does  *)
(* not fix (what json.loads returns) are tagged records [k, v].           *)
(***************************************************************************)
EXTENDS Integers, Sequences, FiniteSets, TLC

VARIABLES
    session_state,   \* st.session_state: a function from the keys present to their values
    topic,           \* value of the topic text input (line 627)
    uploaded_file,   \* the file held by the question file uploader (line 654), or NoFile
    widget_state,    \* values the keyed text widgets question_i / criterion_i hold
    key_identity,    \* the installed library identifies a keyed widget by its key alone
    audio_input,     \* an audio recording / upload is present (lines 470, 479)
    pending_rerun,   \* st.rerun() was called: the next page run is the rerun
    run,             \* what the last page run did: its trigger, external calls, messages
    saved,           \* what the last Save Changes of the question editor wrote, while the
                     \* user has not generated, uploaded or saved since
    audio_of,        \* the question text sent to speech synthesis for the stored audio
    fn,              \* pure-function specification: the function applied, or "none"
    fn_in,           \* its input
    fn_out           \* its output

vars == <<session_state, topic, uploaded_file, widget_state, key_identity,
          audio_input, pending_rerun, run, saved, audio_of, fn, fn_in, fn_out>>

(***************************************************************************)
(* Bounds of the model.                                                    *)
(***************************************************************************)
\* longest question list / criteria list the editors are opened on
MaxLen == 2
\* longest text (in lines) drawn for the parsing functions
MaxLines == 2

(***************************************************************************)
(* Evaluation                                                              *)
(***************************************************************************)
\* F(a), with a evaluated once however often F uses it
With(a, F(_)) == CHOOSE r \in {F(v) : v \in {a}} : TRUE

(***************************************************************************)
(* Python str methods                                                      *)
(***************************************************************************)
Min(S) == CHOOSE x \in S : \A y \in S : x <= y
Max(S) == CHOOSE x \in S : \A y \in S : x >= y

\* str.isspace for one character
IsSpace(c) == c \in {" ", "\n", "\t", "\r"}

\* str.isdigit for one character
IsDigit(c) == c \in {"0", "1", "2", "3", "4", "5", "6", "7", "8", "9"}

\* s.strip()
strip(str0) ==
    With(str0, LAMBDA s :
    With({i \in 1..Len(s) : ~IsSpace(s[i])}, LAMBDA keep :
        IF keep = {} THEN <<>> ELSE SubSeq(s, Min(keep), Max(keep))))

\* c in s, for a one-character c
Contains(str0, c) == With(str0, LAMBDA s : \E i \in 1..Len(s) : s[i] = c)

\* the first position of c in s, 0 when there is none
Find(s, c) == With({i \in 1..Len(s) : s[i] = c}, LAMBDA at : IF at = {} THEN 0 ELSE Min(at))

\* s.split(c): every occurrence of c separates
RECURSIVE split(_, _)
split(str0, c) ==
    With(str0, LAMBDA s :
    With(Find(s, c), LAMBDA at :
        IF at = 0 THEN <<s>>
        ELSE <<SubSeq(s, 1, at - 1)>> \o split(SubSeq(s, at + 1, Len(s)), c)))

\* s.split(c, 1): only the first occurrence separates
split1(str0, c) ==
    With(str0, LAMBDA s :
    With(Find(s, c), LAMBDA at :
        IF at = 0 THEN <<s>>
        ELSE <<SubSeq(s, 1, at - 1), SubSeq(s, at + 1, Len(s))>>))

\* sep.join(parts)
RECURSIVE join(_, _)
join(sep, parts0) ==
    With(parts0, LAMBDA parts :
        IF Len(parts) = 0 THEN <<>>
        ELSE IF Len(parts) = 1 THEN parts[1]
        ELSE parts[1] \o sep \o join(sep, Tail(parts)))

\* s.replace(old, "") for a two-character old, scanning left to right
RECURSIVE remove2(_, _)
remove2(str0, old) ==
    With(str0, LAMBDA s :
        IF Len(s) < 2 THEN s
        ELSE IF SubSeq(s, 1, 2) = old THEN remove2(SubSeq(s, 3, Len(s)), old)
        ELSE <<s[1]>> \o remove2(Tail(s), old))

\* s.replace(c, "") for every c of a set of characters
removeChars(s, cs) == SelectSeq(s, LAMBDA x : x \notin cs)

\* s.endswith(c)
endswith(str0, c) == With(str0, LAMBDA s : Len(s) > 0 /\ s[Len(s)] = c)

\* str(n) for a natural number
Digits == <<"0", "1", "2", "3", "4", "5", "6", "7", "8", "9">>
RECURSIVE str(_)
str(n) == IF n < 10 THEN <<Digits[n + 1]>> ELSE str(n \div 10) \o <<Digits[(n % 10) + 1]>>

\* int(c) for a digit c
DigitValue(c) == CHOOSE d \in 0..9 : Digits[d + 1] = c

\* [f(x) for x in xs]
Map(xs0, f(_)) == With(xs0, LAMBDA xs : [i \in 1..Len(xs) |-> f(xs[i])])

\* s.lower() on the letters this model writes in upper case
Upper == <<"A", "D", "E", "P", "S", "U">>
Lower == <<"a", "d", "e", "p", "s", "u">>
lowerChar(c) == IF \E i \in 1..Len(Upper) : Upper[i] = c
                THEN Lower[CHOOSE i \in 1..Len(Upper) : Upper[i] = c] ELSE c
lower(s) == Map(s, lowerChar)

\* w in s, for a word w
HasSub(str0, w) ==
    With(str0, LAMBDA s : \E i \in 1..(Len(s) - Len(w) + 1) : SubSeq(s, i, i + Len(w) - 1) = w)

(***************************************************************************)
(* Python values of no fixed type                                          *)
(***************************************************************************)
\* k is the type; s the characters of a str, n the number of an int or a bool (1, 0),
\* items the elements of a list, pairs the items of a dict
Py(k, s, n, items, pairs) == [k |-> k, s |-> s, n |-> n, items |-> items, pairs |-> pairs]
None == Py("None", <<>>, 0, <<>>, <<>>)
PyStr(s) == Py("str", s, 0, <<>>, <<>>)
PyInt(n) == Py("int", <<>>, n, <<>>, <<>>)
PyBool(b) == Py("bool", <<>>, IF b THEN 1 ELSE 0, <<>>, <<>>)
PyList(xs) == Py("list", <<>>, 0, xs, <<>>)
\* a dict is its items in insertion order, each <<key, value>>
PyDict(pairs) == Py("dict", <<>>, 0, <<>>, pairs)

\* bool(x), as `if x:` takes it
Truthy(x) ==
    CASE x.k = "None" -> FALSE
      [] x.k \in {"int", "bool"} -> x.n # 0
      [] x.k = "str" -> Len(x.s) > 0
      [] x.k = "list" -> Len(x.items) > 0
      [] x.k = "dict" -> Len(x.pairs) > 0

\* a list of str from the plain sequence of its elements, and back
StrList(xs) == PyList(Map(xs, PyStr))
Strs(x) == Map(x.items, LAMBDA e : e.s)

(***************************************************************************)
(* json.loads / json.dumps on the JSON this model writes: strings with    *)
(* the escapes \" \\ \/ \n \t, non-negative integers, true, false, null,  *)
(* arrays and objects.  A parse step returns [ok, v, next]: whether it    *)
(* succeeded, the value read and the position after it.                    *)
(***************************************************************************)
JErr == [ok |-> FALSE, v |-> None, next |-> 0]
JOk(v, n) == [ok |-> TRUE, v |-> v, next |-> n]

RECURSIVE SkipWs(_, _)
SkipWs(s, i) == IF i <= Len(s) /\ IsSpace(s[i]) THEN SkipWs(s, i + 1) ELSE i

\* the rest of the string whose opening quote precedes position i, acc read so far
RECURSIVE JString(_, _, _)
JString(s, i, acc) ==
    IF i > Len(s) THEN JErr
    ELSE IF s[i] = "\"" THEN JOk(PyStr(acc), i + 1)
    ELSE IF s[i] = "\\" THEN
        IF i + 1 > Len(s) THEN JErr
        ELSE IF s[i + 1] \in {"\"", "\\", "/"}
        THEN With(Append(acc, s[i + 1]), LAMBDA a : JString(s, i + 2, a))
        ELSE IF s[i + 1] = "n" THEN With(Append(acc, "\n"), LAMBDA a : JString(s, i + 2, a))
        ELSE IF s[i + 1] = "t" THEN With(Append(acc, "\t"), LAMBDA a : JString(s, i + 2, a))
        ELSE JErr
    ELSE IF s[i] \in {"\n", "\t", "\r"} THEN JErr
    ELSE With(Append(acc, s[i]), LAMBDA a : JString(s, i + 1, a))

RECURSIVE JDigits(_, _, _)
JDigits(s, i, n) ==
    IF i <= Len(s) /\ IsDigit(s[i])
    THEN With(10 * n + DigitValue(s[i]), LAMBDA m : JDigits(s, i + 1, m))
    ELSE JOk(PyInt(n), i)

JLiteral(s, i, word, v) ==
    IF i + Len(word) - 1 <= Len(s) /\ SubSeq(s, i, i + Len(word) - 1) = word
    THEN JOk(v, i + Len(word)) ELSE JErr

RECURSIVE JValue(_, _)
RECURSIVE JArray(_, _, _)
RECURSIVE JObject(_, _, _)
\* the value that starts at position i0 or after white space from there
JValue(s, i0) ==
    With(SkipWs(s, i0), LAMBDA i :
        IF i > Len(s) THEN JErr
        ELSE IF s[i] = "\"" THEN JString(s, i + 1, <<>>)
        ELSE IF s[i] = "[" THEN
            With(SkipWs(s, i + 1), LAMBDA j :
                IF j <= Len(s) /\ s[j] = "]" THEN JOk(PyList(<<>>), j + 1)
                ELSE JArray(s, j, <<>>))
        ELSE IF s[i] = "{" THEN
            With(SkipWs(s, i + 1), LAMBDA j :
                IF j <= Len(s) /\ s[j] = "}" THEN JOk(PyDict(<<>>), j + 1)
                ELSE JObject(s, j, <<>>))
        ELSE IF s[i] = "0" THEN JOk(PyInt(0), i + 1)
        ELSE IF IsDigit(s[i]) THEN JDigits(s, i, 0)
        ELSE IF s[i] = "t" THEN JLiteral(s, i, <<"t", "r", "u", "e">>, PyBool(TRUE))
        ELSE IF s[i] = "f" THEN JLiteral(s, i, <<"f", "a", "l", "s", "e">>, PyBool(FALSE))
        ELSE IF s[i] = "n" THEN JLiteral(s, i, <<"n", "u", "l", "l">>, None)
        ELSE JErr)

\* the elements of an array from position i on, acc holding those read
JArray(s, i, acc) ==
    With(JValue(s, i), LAMBDA r :
        IF ~r.ok THEN JErr
        ELSE With(SkipWs(s, r.next), LAMBDA j :
             With(Append(acc, r.v), LAMBDA elements :
                 IF j > Len(s) THEN JErr
                 ELSE IF s[j] = "," THEN JArray(s, j + 1, elements)
                 ELSE IF s[j] = "]" THEN JOk(PyList(elements), j + 1)
                 ELSE JErr)))

\* the members of an object from position i0 on, acc holding those read
JObject(s, i0, acc) ==
    With(SkipWs(s, i0), LAMBDA i :
        IF i > Len(s) \/ s[i] # "\"" THEN JErr
        ELSE With(JString(s, i + 1, <<>>), LAMBDA key :
            IF ~key.ok THEN JErr
            ELSE With(SkipWs(s, key.next), LAMBDA c :
                IF c > Len(s) \/ s[c] # ":" THEN JErr
                ELSE With(JValue(s, c + 1), LAMBDA r :
                    IF ~r.ok THEN JErr
                    ELSE With(SkipWs(s, r.next), LAMBDA j :
                         With(Append(acc, <<key.v.s, r.v>>), LAMBDA items :
                             IF j > Len(s) THEN JErr
                             ELSE IF s[j] = "," THEN JObject(s, j + 1, items)
                             ELSE IF s[j] = "}" THEN JOk(PyDict(items), j + 1)
                             ELSE JErr))))))

\* json.loads(s): ok = FALSE stands for json.JSONDecodeError
json_loads(s) ==
    With(JValue(s, 1), LAMBDA r : IF r.ok /\ SkipWs(s, r.next) > Len(s) THEN r ELSE JErr)

\* json.dumps of a str
JEscapeChar(c) ==
    CASE c = "\"" -> <<"\\", "\"">>
      [] c = "\\" -> <<"\\", "\\">>
      [] c = "\n" -> <<"\\", "n">>
      [] c = "\t" -> <<"\\", "t">>
      [] OTHER -> <<c>>
RECURSIVE JEscape(_)
JEscape(str0) ==
    With(str0, LAMBDA s : IF Len(s) = 0 THEN <<>> ELSE JEscapeChar(s[1]) \o JEscape(Tail(s)))
json_dumps_str(s) == <<"\"">> \o JEscape(s) \o <<"\"">>

\* json.dumps(x)
RECURSIVE json_dumps(_)
json_dumps(x0) ==
    With(x0, LAMBDA x :
        CASE x.k = "None" -> <<"n", "u", "l", "l">>
          [] x.k = "bool" ->
                IF x.n = 1 THEN <<"t", "r", "u", "e">> ELSE <<"f", "a", "l", "s", "e">>
          [] x.k = "int" -> str(x.n)
          [] x.k = "str" -> json_dumps_str(x.s)
          [] x.k = "list" ->
                <<"[">> \o join(<<",", " ">>, Map(x.items, json_dumps)) \o <<"]">>
          [] x.k = "dict" ->
                <<"{">>
                \o join(<<",", " ">>,
                        Map(x.pairs, LAMBDA item : json_dumps_str(item[1]) \o <<":", " ">>
                                               \o json_dumps(item[2])))
                \o <<"}">>)

\* json.dumps of a list of str and of {"questions": list of str}
json_dumps_list(xs) == json_dumps(StrList(xs))
QuestionsKey == <<"q", "u", "e", "s", "t", "i", "o", "n", "s">>
json_dumps_object(xs) == json_dumps(PyDict(<< <<QuestionsKey, StrList(xs)>> >>))

\* key in d, and d[key] (the last item of that key)
DictHas(d, key) == \E i \in 1..Len(d.pairs) : d.pairs[i][1] = key
DictGet(d, key) == d.pairs[Max({i \in 1..Len(d.pairs) : d.pairs[i][1] = key})][2]

(***************************************************************************)
(* The external operations.  Each returns what the call hands back:       *)
(*   ret     the return value (None or a value)                            *)
(*   error   the st.error message the function showed, "" when none        *)
(*   called  the hosted API was called                                     *)
(*   raised  an exception left the function                                *)
(* api_key is whether the credential is set; api is what the hosted API   *)
(* does when called: [kind |-> "raise"], or [kind |-> "content"] with the *)
(* text / bytes it answers.                                                *)
(***************************************************************************)
Outcome(ret, error, called, raised) ==
    [ret |-> ret, error |-> error, called |-> called, raised |-> raised]

Raises == [kind |-> "raise", content |-> <<>>]
Answers(content) == [kind |-> "content", content |-> content]

\* one pass of the loop of generate_questions over a line of the response: whether it
\* raises (IndexError), whether it appends, and the question appended
QuestionLine(raw) ==
    With(strip(raw), LAMBDA line :
        IF Len(line) > 0 /\ (Contains(line, ".") \/ Contains(line, "?"))
        THEN IF IsDigit(line[1])
             THEN With(split1(line, "."), LAMBDA parts :
                      IF Len(parts) < 2
                      THEN [raise |-> TRUE, keep |-> FALSE, q |-> <<>>]
                      ELSE [raise |-> FALSE, keep |-> TRUE, q |-> strip(parts[2])])
             ELSE [raise |-> FALSE, keep |-> TRUE, q |-> line]
        ELSE [raise |-> FALSE, keep |-> FALSE, q |-> <<>>])

\* lines 79-89: the parsing of the response text into questions
ParseQuestions(content) ==
    With(Map(split(strip(content), "\n"), QuestionLine), LAMBDA rs :
        IF \E i \in 1..Len(rs) : rs[i].raise
        THEN [raise |-> TRUE, v |-> <<>>]
        ELSE [raise |-> FALSE, v |-> Map(SelectSeq(rs, LAMBDA r : r.keep), LAMBDA r : r.q)])

generate_questions(api_key, api) ==
    IF ~api_key
    THEN Outcome(None, "Please set OPENROUTER_API_KEY environment variable", FALSE, FALSE)
    ELSE IF api.kind = "raise"
    THEN Outcome(None, "Error generating questions", TRUE, FALSE)
    ELSE With(ParseQuestions(api.content), LAMBDA p :
             IF p.raise THEN Outcome(None, "Error generating questions", TRUE, FALSE)
             ELSE Outcome(StrList(p.v), "", TRUE, FALSE))

\* a file of the uploader: its MIME type and its text
JsonType == <<"application/json">>
TextType == <<"text/plain">>
File(type, content) == [type |-> type, content |-> content]
NoFile == File(<<>>, <<>>)

\* parse_uploaded_questions returning the parsed object itself, not its 'questions'
parse_uploaded_questions_whole(file) ==
    IF file.type = JsonType
    THEN With(json_loads(file.content), LAMBDA j :
             IF ~j.ok THEN Outcome(None, "Error parsing file", FALSE, FALSE)
             ELSE IF j.v.k \in {"list", "dict"} THEN Outcome(j.v, "", FALSE, FALSE)
             ELSE Outcome(None,
                    "JSON file should contain an array of questions or an object with 'questions' key",
                    FALSE, FALSE))
    ELSE With(Map(split(file.content, "\n"), strip), LAMBDA questions :
             Outcome(StrList(SelectSeq(questions, LAMBDA q : Len(q) > 0)), "", FALSE, FALSE))

parse_uploaded_questions(file) ==
    IF file.type = JsonType
    THEN With(json_loads(file.content), LAMBDA j :
             IF ~j.ok THEN Outcome(None, "Error parsing file", FALSE, FALSE)
             ELSE IF j.v.k = "list" THEN Outcome(j.v, "", FALSE, FALSE)
             ELSE IF j.v.k = "dict" /\ DictHas(j.v, QuestionsKey)
                  THEN Outcome(DictGet(j.v, QuestionsKey), "", FALSE, FALSE)
             ELSE Outcome(None,
                    "JSON file should contain an array of questions or an object with 'questions' key",
                    FALSE, FALSE))
    ELSE With(Map(split(file.content, "\n"), strip), LAMBDA questions :
             Outcome(StrList(SelectSeq(questions, LAMBDA q : Len(q) > 0)), "", FALSE, FALSE))

\* the lines "i. q" of a question list, numbered from 1
NumberedLines(questions0) ==
    With(questions0, LAMBDA questions :
        [i \in 1..Len(questions) |-> str(i) \o <<".", " ">> \o questions[i]])

\* custom_prompt.format(topic=..., questions=...).  A prompt is a sequence of pieces:
\* the braces "{" and "}", and words (runs of other characters).
RECURSIVE format(_, _, _)
format(prompt, topic_text, questions_text) ==
    LET Raise == [raise |-> TRUE, text |-> <<>>]
        \* the text written for the first n pieces of the prompt, then the rest
        then(text, n) ==
            With(format(SubSeq(prompt, n + 1, Len(prompt)), topic_text, questions_text),
                 LAMBDA rest : IF rest.raise THEN Raise
                               ELSE [raise |-> FALSE, text |-> text \o rest.text])
    IN  IF Len(prompt) = 0 THEN [raise |-> FALSE, text |-> <<>>]
        ELSE IF prompt[1] = "{" THEN
            IF Len(prompt) >= 2 /\ prompt[2] = "{" THEN then(<<"{">>, 2)
            ELSE IF Len(prompt) >= 3 /\ prompt[2] \notin {"{", "}"} /\ prompt[3] = "}"
            THEN IF prompt[2] = "topic" THEN then(topic_text, 3)
                 ELSE IF prompt[2] = "questions" THEN then(questions_text, 3)
                 ELSE Raise    \* KeyError
            ELSE Raise         \* "{}": IndexError; an unclosed "{": ValueError
        ELSE IF prompt[1] = "}" THEN
            IF Len(prompt) >= 2 /\ prompt[2] = "}" THEN then(<<"}">>, 2)
            ELSE Raise         \* ValueError: single "}"
        ELSE then(<<prompt[1]>>, 1)

\* the checkbox glyphs and the bullets, each a single character of the text
Checkboxes == {"U+25A1", "U+2610", "U+2611", "U+2713"}
Bullets == {"-", "U+2022", "*", "+"}
Keywords == {<<"s", "t", "u", "d", "e", "n", "t">>,
             <<"d", "e", "m", "o", "n", "s", "t", "r", "a", "t", "e">>,
             <<"s", "h", "o", "w", "s">>,
             <<"p", "r", "o", "v", "i", "d", "e", "s">>,
             <<"e", "x", "p", "l", "a", "i", "n", "s">>,
             <<"u", "s", "e", "s">>}

\* line[0:2] in ['1.', ..., '9.'] or line[0:3] in ['10.', '11.', '12.']
IsNumbered(line) ==
    \/ Len(line) >= 2 /\ IsDigit(line[1]) /\ line[1] # "0" /\ line[2] = "."
    \/ Len(line) >= 3 /\ line[1] = "1" /\ line[2] \in {"0", "1", "2"} /\ line[3] = "."

\* lines 178-193: is_criterion and criterion for a non-empty stripped line
Criterion(line) ==
    IF \E i \in 1..Len(line) : line[i] \in Checkboxes
    THEN [is_criterion |-> TRUE, criterion |-> strip(removeChars(line, Checkboxes))]
    ELSE IF line[1] \in Bullets
    THEN [is_criterion |-> TRUE, criterion |-> strip(Tail(line))]
    ELSE IF IsNumbered(line)
    THEN [is_criterion |-> TRUE, criterion |-> strip(split1(line, ".")[2])]
    ELSE [is_criterion |-> Len(line) > 10 /\ \E w \in Keywords : HasSub(lower(line), w),
          criterion |-> line]

\* one pass of the loop of generate_rubric over a line of the response: whether it
\* appends, and the criterion appended
CriterionLine(raw) ==
    With(strip(raw), LAMBDA line :
        IF Len(line) = 0 THEN [keep |-> FALSE, c |-> <<>>]
        ELSE With(Criterion(line), LAMBDA r :
            IF r.is_criterion /\ Len(r.criterion) > 5
            THEN With(strip(remove2(remove2(r.criterion, <<"*", "*">>), <<"_", "_">>)),
                      LAMBDA clean :
                          IF Len(clean) > 0 /\ ~endswith(clean, ":")
                          THEN [keep |-> TRUE, c |-> clean]
                          ELSE [keep |-> FALSE, c |-> <<>>])
            ELSE [keep |-> FALSE, c |-> <<>>]))

\* lines 165-201: the parsing of the response text into criteria
ParseCriteria(content) ==
    Map(SelectSeq(Map(split(strip(content), "\n"), CriterionLine), LAMBDA r : r.keep),
        LAMBDA r : r.c)

generate_rubric(api_key, topic_text, questions, custom_prompt, api) ==
    IF ~api_key
    THEN Outcome(None, "Please set OPENROUTER_API_KEY environment variable", FALSE, FALSE)
    ELSE IF /\ Len(custom_prompt) > 0
            /\ format(custom_prompt, topic_text, join(<<"\n">>, NumberedLines(questions))).raise
    THEN Outcome(None, "", FALSE, TRUE)
    ELSE IF api.kind = "raise" THEN Outcome(None, "Error generating rubric", TRUE, FALSE)
    ELSE Outcome(StrList(ParseCriteria(api.content)), "", TRUE, FALSE)

\* the audio bytes and the transcript text are what the API answers (api.content)
generate_speech(api_key, text, api) ==
    IF ~api_key
    THEN Outcome(None, "Please set ELEVENLABS_API_KEY environment variable", FALSE, FALSE)
    ELSE IF api.kind = "raise" THEN Outcome(None, "Error generating speech", TRUE, FALSE)
    ELSE Outcome(PyStr(api.content), "", TRUE, FALSE)

transcribe_audio(api_key, api) ==
    IF ~api_key
    THEN Outcome(None, "Please set ELEVENLABS_API_KEY environment variable", FALSE, FALSE)
    ELSE IF api.kind = "raise" THEN Outcome(None, "Error transcribing audio", TRUE, FALSE)
    ELSE Outcome(PyStr(api.content), "", TRUE, FALSE)

(***************************************************************************)
(* st.session_state: a function whose domain is the keys present.         *)
(***************************************************************************)
Has(ss, key) == key \in DOMAIN ss
Set(ss0, key, val0) ==
    With(ss0, LAMBDA ss :
    With(val0, LAMBDA val :
        [k \in DOMAIN ss \cup {key} |-> IF k = key THEN val ELSE ss[k]]))
Del(ss0, key) == With(ss0, LAMBDA ss : [k \in DOMAIN ss \ {key} |-> ss[k]])
Empty == [k \in {} |-> 0]

\* all_questions: generated_questions followed by uploaded_questions
AllQuestions(ss) ==
    (IF Has(ss, "generated_questions") THEN ss.generated_questions ELSE <<>>)
    \o (IF Has(ss, "uploaded_questions") THEN Strs(ss.uploaded_questions) ELSE <<>>)

\* the gate without the test that the lists are non-empty
QuestionsStored(ss) == Has(ss, "generated_questions") \/ Has(ss, "uploaded_questions")

\* the gate of the rubric section and of the voice interface
QuestionsPresent(ss) ==
    \/ Has(ss, "generated_questions") /\ Len(ss.generated_questions) > 0
    \/ Has(ss, "uploaded_questions") /\ Truthy(ss.uploaded_questions)

\* xs.pop(i), i counted from 0
Pop(xs0, i) == With(xs0, LAMBDA xs : SubSeq(xs, 1, i) \o SubSeq(xs, i + 2, Len(xs)))

\* xs[i] = x, i counted from 0
Put(xs, i, x) == [xs EXCEPT ![i + 1] = x]

(***************************************************************************)
(* One page run.  The run threads a context c through the sections of the *)
(* script in source order:                                                 *)
(*   ss       the session state                                            *)
(*   ws       the values held by the keyed text widgets                    *)
(*   seen     the keyed text widgets rendered so far                       *)
(*   ops      the external operations called, called_api those that        *)
(*            reached the hosted API                                       *)
(*   errors, success   the st.error / st.success messages shown            *)
(*   asked    the numbers of questions generate_rubric was called with     *)
(*   selected_question   the question the selectbox holds, counted from 0  *)
(*   speech   the calls of generate_speech: the text, the voice id it      *)
(*            reads, the number of questions on offer                      *)
(*   audio_name   the N of the download name question_N_audio.mp3 on the   *)
(*            page, 0 when no audio download is offered                    *)
(*   stop     "" while the script runs, "rerun" once st.rerun() was        *)
(*            called, "exception" once an exception left the script,       *)
(*            "no topic" when the topic box is empty                       *)
(* ev is the user interaction that triggered the run:                      *)
(*   type     the widget acted on ("rerun" for a run st.rerun() started)   *)
(*   row      the row of a per-row widget, counted from 0                  *)
(*   text     the text typed, api_key / api as for the operations          *)
(*   fresh    the uploader hands the run a file object positioned at 0     *)
(***************************************************************************)
Ev(type, row, text, api_key, api, fresh) ==
    [type |-> type, row |-> row, text |-> text, api_key |-> api_key, api |-> api,
     fresh |-> fresh]

Ctx(ss, ws) ==
    [ss |-> ss, ws |-> ws, seen |-> {}, ops |-> {}, called_api |-> {},
     errors |-> {}, success |-> {}, asked |-> {}, selected_question |-> 0,
     speech |-> <<>>, audio_name |-> 0, stop |-> ""]

\* the record of an external call in the context
Called(c, op, o) ==
    [c EXCEPT !.ops = @ \cup {op},
              !.called_api = IF o.called THEN @ \cup {op} ELSE @,
              !.errors = IF o.error = "" THEN @ ELSE @ \cup {o.error},
              !.stop = IF o.raised THEN "exception" ELSE @]

\* st.text_area / st.text_input with key kind_i and value=default: the text the user
\* typed in this interaction; else the value the widget holds, when the library keeps
\* a keyed widget across a change of its value argument; else the default
TextWidget(c, ev, kind, i, default) ==
    IF ev.type = kind /\ ev.row = i THEN ev.text
    ELSE IF key_identity /\ <<kind, i>> \in DOMAIN c.ws THEN c.ws[<<kind, i>>]
    ELSE default

Rendered(c, kind, i, value) ==
    [c EXCEPT !.ws = IF key_identity THEN Set(@, <<kind, i>>, value) ELSE @,
              !.seen = @ \cup {<<kind, i>>}]

\* st.selectbox over range(n) with index=index: the index the user picked in this
\* interaction; else the index the widget holds; else its index argument.  A widget
\* without key is the same widget while its arguments are (id: the number of its
\* options); a keyed one is kept as the keyed text widgets are.
SelectBox(c, ev, kind, id, keyed, index) ==
    IF ev.type = kind THEN ev.row
    ELSE IF (keyed => key_identity) /\ <<kind, id>> \in DOMAIN c.ws THEN c.ws[<<kind, id>>]
    ELSE index

Selected(c, kind, id, keyed, value) ==
    [c EXCEPT !.ws = IF keyed /\ ~key_identity THEN @
                     ELSE IF <<kind, id>> \in DOMAIN @ /\ @[<<kind, id>>] = value THEN @
                     ELSE Set(@, <<kind, id>>, value),
              !.seen = @ \cup {<<kind, id>>}]

\* lines 642-649: the Generate Questions button
QuestionGeneration(c, ev) ==
    IF c.stop # "" \/ ev.type # "generate_questions" THEN c
    ELSE With(generate_questions(ev.api_key, ev.api), LAMBDA o :
         With(Called(c, "generate_questions", o), LAMBDA c1 :
             IF Truthy(o.ret)
             THEN [c1 EXCEPT !.ss = Set(@, "generated_questions", Strs(o.ret)),
                             !.success = @ \cup {"Generated questions"}]
             ELSE [c1 EXCEPT !.errors = @ \cup {"Failed to generate questions"}]))

\* uploaded_file.read(): from the position of the file object on
Read(file, fresh) == IF fresh THEN file.content ELSE <<>>

\* lines 660-666: runs whenever the uploader holds a file
UploadHandling(c, file, fresh) ==
    IF c.stop # "" \/ file = NoFile THEN c
    ELSE With(File(file.type, Read(file, fresh)), LAMBDA f :
         With(parse_uploaded_questions(f), LAMBDA o :
         With(Called(c, "parse_uploaded_questions", o), LAMBDA c1 :
             IF Truthy(o.ret)
             THEN [c1 EXCEPT !.ss = Set(@, "uploaded_questions", o.ret),
                             !.success = @ \cup {"Uploaded questions"}]
             ELSE [c1 EXCEPT !.errors = @ \cup {"Failed to parse questions from file"}])))

\* lines 236-252 / 550-564: the rows of an editor from row i on.  Each row writes its
\* widget's value into the buffer; a delete click pops the row and reruns.
RECURSIVE EditRows(_, _, _, _, _, _)
EditRows(c, ev, list, kind, delete, i) ==
    IF i >= Len(c.ss[list]) THEN c
    ELSE With(TextWidget(c, ev, kind, i, c.ss[list][i + 1]), LAMBDA value :
         With(Put(c.ss[list], i, value), LAMBDA written :
         With(Rendered(c, kind, i, value), LAMBDA c1 :
             IF ev.type = delete /\ ev.row = i
             THEN [c1 EXCEPT !.ss = Set(@, list, Pop(written, i)), !.stop = "rerun"]
             ELSE With([c1 EXCEPT !.ss = Set(@, list, written)], LAMBDA c2 :
                      EditRows(c2, ev, list, kind, delete, i + 1)))))

\* the list comprehension of Save Changes without its condition
KeepAll(xs) == xs

\* [x for x in xs if x.strip()]
NonBlank(xs) == SelectSeq(xs, LAMBDA x : Len(strip(x)) > 0)

\* lines 265-285: Save Changes of the question editor
SaveQuestions(c) ==
    With(NonBlank(c.ss.editing_questions_list), LAMBDA valid_questions :
    With(Del(Del(c.ss, "generated_questions"), "uploaded_questions"), LAMBDA cleared :
    With(Set(cleared, "generated_questions", valid_questions), LAMBDA stored :
    With(Set(stored, "editing_questions", FALSE), LAMBDA viewing :
        [c EXCEPT !.ss = Del(viewing, "editing_questions_list"),
                  !.success = @ \cup {"Questions updated!"},
                  !.stop = "rerun"]))))

\* lines 229-291: the question editor, on the combined list all_questions
EditQuestions(c, ev, all_questions) ==
    With(IF Has(c.ss, "editing_questions_list") THEN c
         ELSE [c EXCEPT !.ss = Set(@, "editing_questions_list", all_questions)], LAMBDA c2 :
    With(EditRows(c2, ev, "editing_questions_list", "question", "delete_question", 0),
         LAMBDA c3 :
        IF c3.stop # "" THEN c3
        ELSE IF ev.type = "add_question" /\ Len(strip(ev.text)) > 0
        THEN [c3 EXCEPT !.ss = Set(@, "editing_questions_list",
                                   Append(c3.ss.editing_questions_list, strip(ev.text))),
                        !.stop = "rerun"]
        ELSE IF ev.type = "save_questions" THEN SaveQuestions(c3)
        ELSE IF ev.type = "cancel_questions"
        THEN [c3 EXCEPT !.ss = Del(Set(@, "editing_questions", FALSE),
                                   "editing_questions_list"),
                        !.stop = "rerun"]
        ELSE c3))

\* lines 206-311
display_questions(c, ev) ==
    IF c.stop # "" THEN c
    ELSE With(AllQuestions(c.ss), LAMBDA all_questions :
        IF all_questions = <<>> THEN c
        ELSE With(IF Has(c.ss, "editing_questions") THEN c
                  ELSE [c EXCEPT !.ss = Set(@, "editing_questions", FALSE)], LAMBDA c1 :
            IF ev.type = "edit_questions_btn"
            THEN [c1 EXCEPT !.ss = Set(@, "editing_questions", ~c1.ss.editing_questions),
                            !.stop = "rerun"]
            ELSE IF ~c1.ss.editing_questions THEN c1     \* view mode
            ELSE EditQuestions(c1, ev, all_questions)))

\* lines 294-301: the lines view mode writes for questions_to_show
view_lines(questions_to_show) == NumberedLines(questions_to_show)

\* line 304: the data of the Download Questions button for questions_to_show
all_questions_text(questions0) ==
    With(questions0, LAMBDA questions_to_show :
        join(<<"\n">>,
             [i \in 1..Len(questions_to_show) |->
                 str(i) \o <<".", " ">>
                 \o (IF Contains(questions_to_show[i], " ")
                     THEN split1(questions_to_show[i], " ")[2]
                     ELSE questions_to_show[i])]))

\* lines 684-706: the default prompt, in pieces
default_prompt ==
    <<"Create a comprehensive binary rubric on the topic: ", "{", "topic", "}",
      " Questions to be evaluated: ", "{", "questions", "}",
      " Ensure it's relevant to ", "{", "topic", "}",
      " Format as: U+2610 Criterion # (Overall or Q1/2/etc.) Criterion">>

\* lines 671-741: the rubric generation section
RubricGeneration(c, ev, topic_text) ==
    IF c.stop # "" \/ ~QuestionsPresent(c.ss) THEN c
    ELSE With(IF Has(c.ss, "rubric_prompt") THEN c
              ELSE [c EXCEPT !.ss = Set(@, "rubric_prompt", default_prompt)], LAMBDA c1 :
        IF ev.type = "reset_prompt"
        THEN [c1 EXCEPT !.ss = Set(@, "rubric_prompt", default_prompt), !.stop = "rerun"]
        ELSE IF ev.type = "save_prompt"
        THEN [c1 EXCEPT !.ss = Set(@, "rubric_prompt", ev.text),
                        !.success = @ \cup {"Prompt saved!"}]
        ELSE IF ev.type = "generate_rubric"
        THEN With(AllQuestions(c1.ss), LAMBDA all_questions :
             With(generate_rubric(ev.api_key, topic_text, all_questions,
                                  c1.ss.rubric_prompt, ev.api), LAMBDA o :
             With([Called(c1, "generate_rubric", o)
                      EXCEPT !.asked = @ \cup {Len(all_questions)}], LAMBDA c2 :
                 IF o.raised THEN c2
                 ELSE IF Truthy(o.ret)
                 THEN [c2 EXCEPT !.ss = Set(@, "rubric_criteria", Strs(o.ret)),
                                 !.success = @ \cup {"Generated rubric"}]
                 ELSE [c2 EXCEPT !.errors = @ \cup {"Failed to generate rubric"}])))
        ELSE c1)

\* lines 577-586: Save Changes of the rubric editor
SaveRubric(c) ==
    With(NonBlank(c.ss.editing_criteria), LAMBDA filtered_criteria :
    With(Set(c.ss, "rubric_criteria", filtered_criteria), LAMBDA stored :
    With(Set(stored, "editing_rubric", FALSE), LAMBDA viewing :
        [c EXCEPT !.ss = Del(viewing, "editing_criteria"),
                  !.success = @ \cup {"Rubric updated!"},
                  !.stop = "rerun"])))

\* lines 543-592: the rubric editor
EditRubric(c, ev) ==
    With(IF Has(c.ss, "editing_criteria") THEN c
         ELSE [c EXCEPT !.ss = Set(@, "editing_criteria", c.ss.rubric_criteria)], LAMBDA c2 :
    With(EditRows(c2, ev, "editing_criteria", "criterion", "delete_criterion", 0),
         LAMBDA c3 :
        IF c3.stop # "" THEN c3
        ELSE IF ev.type = "add_criterion" /\ Len(strip(ev.text)) > 0
        THEN [c3 EXCEPT !.ss = Set(@, "editing_criteria",
                                   Append(c3.ss.editing_criteria, strip(ev.text))),
                        !.stop = "rerun"]
        ELSE IF ev.type = "save_rubric" THEN SaveRubric(c3)
        ELSE IF ev.type = "cancel_rubric"
        THEN [c3 EXCEPT !.ss = Del(Set(@, "editing_rubric", FALSE), "editing_criteria"),
                        !.stop = "rerun"]
        ELSE c3))

\* lines 527-609
display_rubric(c, ev) ==
    IF c.stop # "" \/ ~Has(c.ss, "rubric_criteria") THEN c
    ELSE With(IF Has(c.ss, "editing_rubric") THEN c
              ELSE [c EXCEPT !.ss = Set(@, "editing_rubric", FALSE)], LAMBDA c1 :
        IF ev.type = "edit_rubric_btn"
        THEN [c1 EXCEPT !.ss = Set(@, "editing_rubric", ~c1.ss.editing_rubric),
                        !.stop = "rerun"]
        ELSE IF ~c1.ss.editing_rubric THEN c1     \* view mode
        ELSE EditRubric(c1, ev))

\* lines 12-45: the keys of AVAILABLE_VOICES in order, Daniel first
AVAILABLE_VOICES ==
    <<"onwK4e9ZLuTAKqWW03F9", "AZnzlk1XvdvUeBnXmlld", "Xb7hH8MSUJpSbSDYk0k2",
      "EXAVITQu4vr4xnSDxMaL", "ErXwobaYiN019PkySvjV", "MF3mGyEYCl7XYWbV9V6O",
      "TxGEqnHWrfWFTfGW9XjX", "VR6AewLTigWG4xSOukaG">>

\* a generate_speech that always sends the default voice
default_voice_id(ss) == AVAILABLE_VOICES[1]

\* line 321 of generate_speech: the voice id it sends
selected_voice_id(ss) ==
    IF Has(ss, "selected_voice_id") THEN ss.selected_voice_id ELSE AVAILABLE_VOICES[1]

\* line 410: the position of the stored voice id among the options, counted from 0
current_index(voice_id) ==
    IF \E i \in 1..Len(AVAILABLE_VOICES) : AVAILABLE_VOICES[i] = voice_id
    THEN (CHOOSE i \in 1..Len(AVAILABLE_VOICES) : AVAILABLE_VOICES[i] = voice_id) - 1
    ELSE 0

\* lines 383-393: the question selectbox
QuestionSelection(c, ev) ==
    With(Len(AllQuestions(c.ss)), LAMBDA n :
    With(SelectBox(c, ev, "select_question", n, FALSE, 0), LAMBDA selected_question :
        [Selected(c, "select_question", n, FALSE, selected_question)
            EXCEPT !.selected_question = selected_question]))

\* lines 398-421: the voice selectbox
VoiceSelection(c0, ev) ==
    With(IF Has(c0.ss, "selected_voice_id") THEN c0
         ELSE [c0 EXCEPT !.ss = Set(@, "selected_voice_id", AVAILABLE_VOICES[1])], LAMBDA c :
    With(SelectBox(c, ev, "voice_selector", 0, TRUE, current_index(c.ss.selected_voice_id)),
         LAMBDA selected_voice_index :
        [Selected(c, "voice_selector", 0, TRUE, selected_voice_index)
            EXCEPT !.ss = IF @.selected_voice_id = AVAILABLE_VOICES[selected_voice_index + 1]
                          THEN @
                          ELSE Set(@, "selected_voice_id",
                                   AVAILABLE_VOICES[selected_voice_index + 1])]))

\* lines 423-439: the Generate Speech and Clear Audio buttons
SpeechButtons(c0, ev) ==
    With(c0, LAMBDA c :
        IF ev.type = "generate_speech"
        THEN With(AllQuestions(c.ss), LAMBDA all_questions :
             With(generate_speech(ev.api_key, all_questions[c.selected_question + 1], ev.api),
                  LAMBDA o :
                 [Called(c, "generate_speech", o)
                     EXCEPT !.speech = Append(@, [text |-> all_questions[c.selected_question + 1],
                                                  voice_id |-> selected_voice_id(c.ss),
                                                  questions |-> Len(all_questions)]),
                            !.ss = IF Truthy(o.ret) THEN Set(@, "generated_audio", o.ret.s)
                                   ELSE @,
                            !.success = IF Truthy(o.ret)
                                        THEN @ \cup {"Speech generated successfully!"} ELSE @,
                            !.errors = IF Truthy(o.ret) THEN @
                                       ELSE @ \cup {"Failed to generate speech"}]))
        ELSE IF ev.type = "clear_audio"
        THEN [c EXCEPT !.ss = Del(@, "generated_audio"), !.stop = "rerun"]
        ELSE c)

\* lines 442-452: the audio player and its download button
AudioDownload(c0) ==
    With(c0, LAMBDA c :
        [c EXCEPT !.audio_name = IF c.stop = "" /\ Has(c.ss, "generated_audio")
                                 THEN c.selected_question + 1 ELSE 0])

\* lines 382-452: text-to-speech: the question selectbox, the voice selectbox, the
\* buttons and the audio download
TextToSpeech(c, ev) ==
    IF AllQuestions(c.ss) = <<>> THEN c
    ELSE AudioDownload(SpeechButtons(VoiceSelection(QuestionSelection(c, ev), ev), ev))

\* speech-to-text with a Transcribe Audio button that drops the stored transcript when
\* the transcription fails
SpeechToTextForgetting(c, ev, audio) ==
    IF c.stop # "" \/ ~audio THEN c
    ELSE IF ev.type = "transcribe"
    THEN With(transcribe_audio(ev.api_key, ev.api), LAMBDA o :
         With(Called(c, "transcribe_audio", o), LAMBDA d :
             IF Truthy(o.ret)
             THEN [d EXCEPT !.ss = Set(@, "transcript", o.ret.s),
                            !.success = @ \cup {"Audio transcribed successfully!"}]
             ELSE [d EXCEPT !.ss = Del(@, "transcript"),
                            !.errors = @ \cup {"Failed to transcribe audio"}]))
    ELSE IF ev.type = "clear_transcript"
    THEN [c EXCEPT !.ss = Del(@, "transcript"), !.stop = "rerun"]
    ELSE c

\* lines 454-525: speech-to-text, audio being whether a recording or a file is present
SpeechToText(c, ev, audio) ==
    IF c.stop # "" \/ ~audio THEN c
    ELSE IF ev.type = "transcribe"
    THEN With(transcribe_audio(ev.api_key, ev.api), LAMBDA o :
         With(Called(c, "transcribe_audio", o), LAMBDA d :
             IF Truthy(o.ret)
             THEN [d EXCEPT !.ss = Set(@, "transcript", o.ret.s),
                            !.success = @ \cup {"Audio transcribed successfully!"}]
             ELSE [d EXCEPT !.errors = @ \cup {"Failed to transcribe audio"}]))
    ELSE IF ev.type = "clear_transcript"
    THEN [c EXCEPT !.ss = Del(@, "transcript"), !.stop = "rerun"]
    ELSE c

\* lines 367-525
display_voice_interface(c, ev, audio) ==
    IF c.stop # "" \/ ~QuestionsPresent(c.ss) THEN c
    ELSE With(TextToSpeech(c, ev), LAMBDA c2 : SpeechToText(c2, ev, audio))


(***************************************************************************)
(* The page: one action per user interaction, each a whole page run.      *)
(***************************************************************************)
\* what the user types into a question row / a criterion row / the add boxes
QuestionTexts == {<<"b">>, <<" ">>}
CriterionTexts == {<<"c">>, <<" ">>}
\* what the chat API answers to the question prompt and to the rubric prompt
QuestionAnswers ==
    {Raises,
     Answers(<<"1", ".", "a", "\n", "2", ".", "b">>),
     Answers(<<"1", ")", "a", "?">>),
     Answers(<<"x">>)}
RubricAnswers ==
    {Raises,
     Answers(<<"U+2610", " ", "a", "b", "c", "d", "e", "f", "\n",
               "-", " ", "u", "v", "w", "x", "y", "z">>),
     Answers(<<"x">>)}
\* what the speech API answers: audio bytes, a transcript
SpeechAnswers == {Raises, Answers(<<"mp3">>), Answers(<<>>)}
\* the files the user uploads
Files ==
    {File(TextType, <<"a">>),
     File(JsonType, json_dumps_list(<< <<"b">> >>)),
     File(JsonType, <<"[">>)}
\* the prompts the user saves
Prompts == {default_prompt, <<"Rubric for ", "{", "subject", "}">>}
Topics == {<<>>, <<"t">>}

NoApi == Answers(<<>>)
Click(type) == Ev(type, 0, <<>>, TRUE, NoApi, TRUE)

\* the page the last run left on screen
PageShown == ~pending_rerun /\ Len(topic) > 0
Crashed == run.stop = "exception"
QuestionsShown == PageShown /\ AllQuestions(session_state) # <<>>
EditingQuestions ==
    /\ QuestionsShown
    /\ Has(session_state, "editing_questions") /\ session_state.editing_questions
    /\ Has(session_state, "editing_questions_list")
RubricSectionShown == PageShown /\ QuestionsPresent(session_state)
RubricShown == PageShown /\ ~Crashed /\ Has(session_state, "rubric_criteria")
EditingRubric ==
    /\ RubricShown
    /\ Has(session_state, "editing_rubric") /\ session_state.editing_rubric
    /\ Has(session_state, "editing_criteria")
VoiceShown == PageShown /\ ~Crashed /\ QuestionsPresent(session_state)
SpeechShown == VoiceShown /\ AllQuestions(session_state) # <<>>

NotSaved == [set |-> FALSE, v |-> <<>>]
Saved(questions) == [set |-> TRUE, v |-> questions]

\* what the run on ev that ended in context c leaves of the record of the last Save
SavedAfter(ev, c) ==
    IF ev.type \in {"generate_questions", "upload"} THEN NotSaved
    ELSE IF ev.type = "save_questions" THEN Saved(c.ss.generated_questions)
    ELSE saved

NoAudio == [set |-> FALSE, text |-> <<>>]
AudioOf(text) == [set |-> TRUE, text |-> text]

\* the text the stored audio speaks, after the run that ended in context c
AudioAfter(c) ==
    IF c.speech # <<>> /\ "Speech generated successfully!" \in c.success
    THEN AudioOf(c.speech[1].text)
    ELSE IF ~Has(c.ss, "generated_audio") THEN NoAudio
    ELSE audio_of

\* the log of the run on ev that ended in context c
RunLog(ev, c) ==
    [event |-> ev.type,
     row |-> IF ev.type \in {"delete_question", "delete_criterion"} THEN ev.row ELSE 0,
     api_key |-> ev.api_key, api |-> ev.api.kind,
     ops |-> c.ops, called_api |-> c.called_api, errors |-> c.errors,
     success |-> c.success, asked |-> c.asked, speech |-> c.speech,
     audio_name |-> c.audio_name, stop |-> c.stop]

\* lines 611-745: a page run on the interaction ev, with the topic box, the uploader
\* and the audio input holding topic_text, file and audio: the sections of the script
\* top to bottom, each on the context the one before it left.  With no topic nothing
\* below line 629 runs (the context starts stopped).  A widget the run did not render
\* loses its value, unless an exception ended the run.
PageRun(ev, topic_text, file, audio) ==
    \E c0 \in {IF Len(topic_text) = 0
               THEN [Ctx(session_state, widget_state) EXCEPT !.stop = "no topic"]
               ELSE Ctx(session_state, widget_state)} :
    \E c1 \in {QuestionGeneration(c0, ev)} :
    \E c2 \in {UploadHandling(c1, file, ev.fresh)} :
    \E c3 \in {display_questions(c2, ev)} :
    \E c4 \in {RubricGeneration(c3, ev, topic_text)} :
    \E c5 \in {display_rubric(c4, ev)} :
    \E c \in {display_voice_interface(c5, ev, audio)} :
        /\ session_state' = c.ss
        /\ widget_state' = IF c.stop = "exception" THEN c.ws
                           ELSE [k \in DOMAIN c.ws \cap c.seen |-> c.ws[k]]
        /\ topic' = topic_text
        /\ uploaded_file' = IF Len(topic_text) = 0 THEN NoFile ELSE file
        /\ audio_input' = IF c.stop = "exception" THEN audio
                          ELSE c.stop = "" /\ QuestionsPresent(c.ss) /\ audio
        /\ pending_rerun' = (c.stop = "rerun")
        /\ run' = RunLog(ev, c)
        /\ saved' = SavedAfter(ev, c)
        /\ audio_of' = AudioAfter(c)
        /\ UNCHANGED <<key_identity, fn, fn_in, fn_out>>

Interaction(ev) == PageRun(ev, topic, uploaded_file, audio_input)

StartLog ==
    [event |-> "start", row |-> 0, api_key |-> TRUE, api |-> "content", ops |-> {},
     called_api |-> {}, errors |-> {}, success |-> {}, asked |-> {}, speech |-> <<>>,
     audio_name |-> 0, stop |-> ""]

\* the page before the first interaction
InitPage ==
    /\ session_state = Empty
    /\ topic = <<>>
    /\ uploaded_file = NoFile
    /\ widget_state = Empty
    /\ key_identity \in BOOLEAN
    /\ audio_input = FALSE
    /\ pending_rerun = FALSE
    /\ run = StartLog
    /\ saved = NotSaved
    /\ audio_of = NoAudio

Init ==
    /\ InitPage
    /\ fn = "none"
    /\ fn_in = None
    /\ fn_out = None

\* the run st.rerun() starts
Rerun ==
    /\ pending_rerun
    /\ \E fresh \in BOOLEAN : Interaction(Ev("rerun", 0, <<>>, TRUE, NoApi, fresh))

\* the credential and the API of an operation: with no credential the API is not reached
Apis(answers) ==
    {[api_key |-> FALSE, api |-> NoApi]} \cup {[api_key |-> TRUE, api |-> a] : a \in answers}

EnterTopicOf(topics) ==
    /\ ~pending_rerun
    /\ \E t \in topics \ {topic} : PageRun(Click("topic"), t, uploaded_file, audio_input)

EnterTopic == EnterTopicOf(Topics)

GenerateQuestionsWith(apis) ==
    /\ PageShown
    /\ \E a \in apis : Interaction(Ev("generate_questions", 0, <<>>, a.api_key, a.api, TRUE))

ClickGenerateQuestions == GenerateQuestionsWith(Apis(QuestionAnswers))

UploadFileOf(files) ==
    /\ PageShown
    /\ \E f \in files \ {uploaded_file} : PageRun(Click("upload"), topic, f, audio_input)

UploadFile == UploadFileOf(Files)

RemoveFile ==
    /\ PageShown /\ uploaded_file # NoFile
    /\ PageRun(Click("remove_file"), topic, NoFile, audio_input)

ClickEditQuestions ==
    /\ QuestionsShown
    /\ Len(AllQuestions(session_state)) <= MaxLen
    /\ Interaction(Click("edit_questions_btn"))

TypeQuestionOf(texts) ==
    /\ EditingQuestions
    /\ \E i \in 0..(Len(session_state.editing_questions_list) - 1), text \in texts :
           Interaction(Ev("question", i, text, TRUE, NoApi, TRUE))

TypeQuestion == TypeQuestionOf(QuestionTexts)

ClickDeleteQuestion ==
    /\ EditingQuestions
    /\ \E i \in 0..(Len(session_state.editing_questions_list) - 1) :
           Interaction(Ev("delete_question", i, <<>>, TRUE, NoApi, TRUE))

AddQuestionOf(texts) ==
    /\ EditingQuestions
    /\ Len(session_state.editing_questions_list) < MaxLen
    /\ \E text \in texts : Interaction(Ev("add_question", 0, text, TRUE, NoApi, TRUE))

ClickAddQuestion == AddQuestionOf(QuestionTexts)

ClickSaveQuestions == EditingQuestions /\ Interaction(Click("save_questions"))

ClickCancelQuestions == EditingQuestions /\ Interaction(Click("cancel_questions"))

ClickResetPrompt == RubricSectionShown /\ Interaction(Click("reset_prompt"))

ClickSavePrompt ==
    /\ RubricSectionShown
    /\ \E text \in Prompts : Interaction(Ev("save_prompt", 0, text, TRUE, NoApi, TRUE))

GenerateRubricWith(apis) ==
    /\ RubricSectionShown
    /\ \E a \in apis : Interaction(Ev("generate_rubric", 0, <<>>, a.api_key, a.api, TRUE))

ClickGenerateRubric == GenerateRubricWith(Apis(RubricAnswers))

ClickEditRubric == RubricShown /\ Interaction(Click("edit_rubric_btn"))

TypeCriterionOf(texts) ==
    /\ EditingRubric
    /\ \E i \in 0..(Len(session_state.editing_criteria) - 1), text \in texts :
           Interaction(Ev("criterion", i, text, TRUE, NoApi, TRUE))

TypeCriterion == TypeCriterionOf(CriterionTexts)

ClickDeleteCriterion ==
    /\ EditingRubric
    /\ \E i \in 0..(Len(session_state.editing_criteria) - 1) :
           Interaction(Ev("delete_criterion", i, <<>>, TRUE, NoApi, TRUE))

AddCriterionOf(texts) ==
    /\ EditingRubric
    /\ Len(session_state.editing_criteria) < MaxLen
    /\ \E text \in texts : Interaction(Ev("add_criterion", 0, text, TRUE, NoApi, TRUE))

ClickAddCriterion == AddCriterionOf(CriterionTexts)

ClickSaveRubric == EditingRubric /\ Interaction(Click("save_rubric"))

ClickCancelRubric == EditingRubric /\ Interaction(Click("cancel_rubric"))

\* the question and the voice the selectboxes on the page hold, counted from 0
QuestionSelected ==
    With(<<"select_question", Len(AllQuestions(session_state))>>, LAMBDA w :
        IF w \in DOMAIN widget_state THEN widget_state[w] ELSE 0)
VoiceSelected == current_index(session_state.selected_voice_id)

SelectQuestion ==
    /\ SpeechShown
    /\ \E i \in 0..(Len(AllQuestions(session_state)) - 1) \ {QuestionSelected} :
           Interaction(Ev("select_question", i, <<>>, TRUE, NoApi, TRUE))

SelectVoiceOf(voices) ==
    /\ SpeechShown
    /\ \E i \in voices \ {VoiceSelected} :
           Interaction(Ev("voice_selector", i, <<>>, TRUE, NoApi, TRUE))

SelectVoice == SelectVoiceOf(0..(Len(AVAILABLE_VOICES) - 1))

GenerateSpeechWith(apis) ==
    /\ SpeechShown
    /\ \E a \in apis : Interaction(Ev("generate_speech", 0, <<>>, a.api_key, a.api, TRUE))

ClickGenerateSpeech == GenerateSpeechWith(Apis(SpeechAnswers))

ClickClearAudio == SpeechShown /\ Interaction(Click("clear_audio"))

RecordAudio ==
    /\ VoiceShown /\ ~audio_input
    /\ PageRun(Click("audio_input"), topic, uploaded_file, TRUE)

TranscribeWith(apis) ==
    /\ VoiceShown /\ audio_input
    /\ \E a \in apis : Interaction(Ev("transcribe", 0, <<>>, a.api_key, a.api, TRUE))

ClickTranscribe == TranscribeWith(Apis(SpeechAnswers))

ClickClearTranscript == VoiceShown /\ audio_input /\ Interaction(Click("clear_transcript"))

\* the question flow: topic, generation, upload and the question editor
Next ==
    \/ Rerun
    \/ EnterTopic
    \/ ClickGenerateQuestions
    \/ UploadFile
    \/ RemoveFile
    \/ ClickEditQuestions
    \/ TypeQuestion
    \/ ClickDeleteQuestion
    \/ ClickAddQuestion
    \/ ClickSaveQuestions
    \/ ClickCancelQuestions

Spec == Init /\ [][Next]_vars

\* the external operations: questions, upload, rubric prompt and rubric, speech
NextOps ==
    \/ Rerun
    \/ EnterTopic
    \/ ClickGenerateQuestions
    \/ UploadFile
    \/ RemoveFile
    \/ ClickResetPrompt
    \/ ClickSavePrompt
    \/ ClickGenerateRubric
    \/ ClickGenerateSpeech
    \/ ClickClearAudio
    \/ RecordAudio
    \/ ClickTranscribe
    \/ ClickClearTranscript

SpecOps == Init /\ [][NextOps]_vars

\* the two editors, on one topic, one generated question list and one generated rubric
TypeTopic == EnterTopicOf({<<"t">>})
GenerateQuestionList ==
    GenerateQuestionsWith({[api_key |-> TRUE, api |-> Answers(<<"1", ".", "a">>)]})
GenerateCriteria ==
    GenerateRubricWith({[api_key |-> TRUE,
                         api |-> Answers(<<"-", " ", "u", "v", "w", "x", "y", "z">>)]})

\* the texts typed: the text generated, and a blank
RetypeQuestion == TypeQuestionOf({<<"a">>, <<" ">>})
AddTypedQuestion == AddQuestionOf({<<"a">>, <<" ">>})
RetypeCriterion == TypeCriterionOf({<<"u", "v", "w", "x", "y", "z">>, <<" ">>})
AddTypedCriterion == AddCriterionOf({<<"u", "v", "w", "x", "y", "z">>, <<" ">>})

NextEdit ==
    \/ Rerun
    \/ TypeTopic
    \/ GenerateQuestionList
    \/ ClickEditQuestions
    \/ RetypeQuestion
    \/ ClickDeleteQuestion
    \/ AddTypedQuestion
    \/ ClickSaveQuestions
    \/ ClickCancelQuestions
    \/ GenerateCriteria
    \/ ClickEditRubric
    \/ RetypeCriterion
    \/ ClickDeleteCriterion
    \/ AddTypedCriterion
    \/ ClickSaveRubric
    \/ ClickCancelRubric

SpecEdit == Init /\ [][NextEdit]_vars

\* the gates of the rubric section and of the voice interface: questions come and go
\* (generated, uploaded, deleted in the editor and saved) and the operations behind
\* the gates are asked for
SpeakQuestion == GenerateSpeechWith({[api_key |-> TRUE, api |-> Answers(<<"mp3">>)]})
TranscribeAnswer == TranscribeWith({[api_key |-> TRUE, api |-> Answers(<<"mp3">>)]})
UploadQuestionList == UploadFileOf({File(TextType, <<"a">>)})

NextGate ==
    \/ Rerun
    \/ EnterTopic
    \/ GenerateQuestionList
    \/ UploadQuestionList
    \/ RemoveFile
    \/ ClickEditQuestions
    \/ ClickDeleteQuestion
    \/ ClickSaveQuestions
    \/ GenerateCriteria
    \/ SpeakQuestion
    \/ RecordAudio
    \/ TranscribeAnswer

SpecGate == Init /\ [][NextGate]_vars

\* the two editors side by side, on an uploaded question list and a generated rubric
NextPair ==
    \/ Rerun
    \/ TypeTopic
    \/ UploadQuestionList
    \/ ClickEditQuestions
    \/ RetypeQuestion
    \/ ClickDeleteQuestion
    \/ AddTypedQuestion
    \/ ClickSaveQuestions
    \/ ClickCancelQuestions
    \/ GenerateCriteria
    \/ ClickEditRubric
    \/ RetypeCriterion
    \/ ClickDeleteCriterion
    \/ AddTypedCriterion
    \/ ClickSaveRubric
    \/ ClickCancelRubric

SpecPair == Init /\ [][NextPair]_vars

\* the voice interface: two generated questions, the question and voice selectboxes,
\* speech generation, and the question editor changing the list under the audio
GenerateTwoQuestions ==
    GenerateQuestionsWith({[api_key |-> TRUE,
                            api |-> Answers(<<"1", ".", "a", "\n", "2", ".", "b">>)]})
SelectSomeVoice == SelectVoiceOf(0..2)

NextVoice ==
    \/ Rerun
    \/ TypeTopic
    \/ GenerateTwoQuestions
    \/ SelectQuestion
    \/ SelectSomeVoice
    \/ ClickGenerateSpeech
    \/ ClickClearAudio
    \/ ClickEditQuestions
    \/ ClickDeleteQuestion
    \/ ClickSaveQuestions

SpecVoice == Init /\ [][NextVoice]_vars

(***************************************************************************)
(* The parsing functions on their own: a text, a file or a question list  *)
(* is drawn, and each action applies one function to it.                   *)
(***************************************************************************)
\* all sequences of at most n elements of S
SeqsUpTo(S, n) == UNION {[1..m -> S] : m \in 0..n}

\* lines of a model response to the question prompt
QuestionLines ==
    {<<"1", ".", " ", "a", "?">>,
     <<"1", "2", ".", "b", "?">>,
     <<"1", ")", " ", "a", "?">>,
     <<"2", "+", "2", "?", " ", "x", ".">>,
     <<"a", ".", "b">>,
     <<" ", "a", "?", " ">>,
     <<"a">>,
     <<>>}

\* lines of a model response to the rubric prompt: a prefix and the criterion text
Prefixes ==
    {<<"U+2610", " ">>, <<"U+2713">>, <<"-", " ">>, <<"U+2022", " ">>, <<"1", ".", " ">>,
     <<"1", "3", ".", " ">>, <<"-", " ", "U+2610", " ">>}
Bodies ==
    {<<"a", "b", "c", "d", "e", "f">>,
     <<"*", "*", "a", "b", "c", "d", "e", "f", "*", "*">>,
     <<"a", "b", "c">>,
     <<"a", "b", "c", "d", "e", "f", ":">>}
CriterionLines ==
    {[prefix |-> p, body |-> b] : p \in Prefixes, b \in Bodies}
    \cup {[prefix |-> <<>>, body |-> <<>>]}
LineText(line) == line.prefix \o line.body

\* question strings, and the values a JSON file holds
QuestionStrings ==
    {<<"a">>, <<"a", " ", "b">>, <<"\"", "q", "\"">>, <<"\\">>, <<" ", "a", " ">>, <<>>}
Elements == {PyStr(<<"a">>), PyStr(<<>>), PyInt(1), None}
Lists == {PyList(xs) : xs \in SeqsUpTo(Elements, MaxLen)}
JsonValues ==
    Lists
    \cup {PyDict(<< <<QuestionsKey, v>> >>) :
             v \in Lists \cup {PyStr(<<"a", "b", "c">>), PyInt(5)}}
    \cup {PyInt(5), PyStr(<<"a">>), None, PyDict(<<>>), PyDict(<< <<<<"a">>, PyInt(1)>> >>)}
UploadedFiles ==
    {File(JsonType, json_dumps(v)) : v \in JsonValues}
    \cup {File(JsonType, <<"[">>), File(JsonType, <<>>)}
    \cup {File(TextType, join(<<"\n">>, xs)) : xs \in SeqsUpTo(QuestionStrings, MaxLines)}

\* an input of kind k
In(k, v) == [k |-> k, v |-> v]

InitFn ==
    /\ InitPage
    /\ fn = "none"
    /\ \/ \E lines \in SeqsUpTo(QuestionLines, MaxLines) : fn_in = In("response", lines)
       \/ \E lines \in SeqsUpTo(CriterionLines, MaxLines) : fn_in = In("rubric response", lines)
       \/ \E f \in UploadedFiles : fn_in = In("file", f)
       \/ \E xs \in SeqsUpTo(QuestionStrings, MaxLen) : fn_in = In("questions", xs)
    /\ fn_out = None

Apply(name, result) ==
    /\ fn' = name
    /\ fn_out' = result
    /\ UNCHANGED <<session_state, topic, uploaded_file, widget_state, key_identity,
                   audio_input, pending_rerun, run, saved, audio_of, fn_in>>

\* generate_questions on a response text
ParseResponse ==
    /\ fn_in.k = "response"
    /\ Apply("generate_questions",
             generate_questions(TRUE, Answers(join(<<"\n">>, fn_in.v))))

\* generate_rubric on a response text
ParseRubricResponse ==
    /\ fn_in.k = "rubric response"
    /\ Apply("generate_rubric",
             generate_rubric(TRUE, <<"t">>, << <<"q">> >>, default_prompt,
                             Answers(join(<<"\n">>, Map(fn_in.v, LineText)))))

\* lines 660-666 on a file, from an empty session state
Upload ==
    /\ fn_in.k = "file"
    /\ \E c \in {UploadHandling(Ctx(Empty, Empty), fn_in.v, TRUE)} :
           Apply("upload", [ss |-> c.ss, errors |-> c.errors])

\* a question list written to a file and parsed back
RoundTripText ==
    /\ fn_in.k = "questions"
    /\ Apply("text round trip",
             parse_uploaded_questions(File(TextType, join(<<"\n">>, fn_in.v))).ret)

RoundTripArray ==
    /\ fn_in.k = "questions"
    /\ Apply("array round trip",
             parse_uploaded_questions(File(JsonType, json_dumps_list(fn_in.v))).ret)

RoundTripObject ==
    /\ fn_in.k = "questions"
    /\ Apply("object round trip",
             parse_uploaded_questions(File(JsonType, json_dumps_object(fn_in.v))).ret)

\* view mode on a question list: the lines written and the download data
ViewQuestions ==
    /\ fn_in.k = "questions"
    /\ Apply("view", [lines |-> view_lines(fn_in.v), data |-> all_questions_text(fn_in.v)])

NextFn ==
    \/ ParseResponse
    \/ ParseRubricResponse
    \/ Upload
    \/ RoundTripText
    \/ RoundTripArray
    \/ RoundTripObject
    \/ ViewQuestions

SpecFn == InitFn /\ [][NextFn]_vars

(***************************************************************************)
(* Properties.                                                             *)
(***************************************************************************)

\* C1: after Save Changes in the question editor, on every following page run in
\* which the user does not generate, upload or save again, the combined question
\* list (generated_questions followed by uploaded_questions) is the list Save wrote:
\* the uploaded questions are not counted a second time.
SavedQuestionsKept == saved.set => AllQuestions(session_state) = saved.v

\* C2: after Save Changes in either editor the list written (generated_questions,
\* rubric_criteria) has no empty or whitespace-only entry, edit mode is off and the
\* edit buffer is removed, whatever was edited, added and deleted before.
IsBlank(text) == strip(text) = <<>>
SaveLeavesNoBlank ==
    /\ run.event = "save_questions" =>
           /\ Has(session_state, "generated_questions")
           /\ \A i \in 1..Len(session_state.generated_questions) :
                  ~IsBlank(session_state.generated_questions[i])
           /\ ~session_state.editing_questions
           /\ ~Has(session_state, "editing_questions_list")
    /\ run.event = "save_rubric" =>
           /\ Has(session_state, "rubric_criteria")
           /\ \A i \in 1..Len(session_state.rubric_criteria) :
                  ~IsBlank(session_state.rubric_criteria[i])
           /\ ~session_state.editing_rubric
           /\ ~Has(session_state, "editing_criteria")

\* Save Changes of the rubric editor ran on a buffer with a blank row (the row's
\* widget still holds the blank) and wrote the remaining criteria
SaveDroppedBlank ==
    /\ key_identity
    /\ run.event = "save_rubric"
    /\ Len(session_state.rubric_criteria) >= 1
    /\ \E key \in DOMAIN widget_state : key[1] = "criterion" /\ IsBlank(widget_state[key])

\* C3: every failure of an external operation is caught at the call site: with the
\* credential missing the operation shows its message and does not call the API,
\* an exception of the API call shows the operation's error message, and no
\* exception escapes to the page run.
CredentialMessage(event) ==
    IF event \in {"generate_questions", "generate_rubric"}
    THEN "Please set OPENROUTER_API_KEY environment variable"
    ELSE "Please set ELEVENLABS_API_KEY environment variable"
ErrorMessage(event) ==
    CASE event = "generate_questions" -> "Error generating questions"
      [] event = "generate_rubric" -> "Error generating rubric"
      [] event = "generate_speech" -> "Error generating speech"
      [] event = "transcribe" -> "Error transcribing audio"
FailuresCaught ==
    /\ run.stop # "exception"
    /\ run.event \in {"generate_questions", "generate_rubric", "generate_speech", "transcribe"} =>
           /\ ~run.api_key => run.called_api = {} /\ CredentialMessage(run.event) \in run.errors
           /\ run.api_key /\ run.api = "raise" => ErrorMessage(run.event) \in run.errors

\* C4: a malformed upload is rejected: uploaded_questions is set only to a list of
\* non-empty strings, and when it is not set an error is reported.
IsQuestionList(x) ==
    /\ x.k = "list"
    /\ \A i \in 1..Len(x.items) : x.items[i].k = "str" /\ Len(x.items[i].s) > 0
UploadRejectsMalformed ==
    fn = "upload" =>
        /\ Has(fn_out.ss, "uploaded_questions") => IsQuestionList(fn_out.ss.uploaded_questions)
        /\ ~Has(fn_out.ss, "uploaded_questions") => fn_out.errors # {}

\* C5: a page run calls at most one of the four external operations: generate
\* questions, parse uploaded file, generate rubric, generate speech / transcribe.
OperationGroup(op) == IF op \in {"generate_speech", "transcribe_audio"} THEN "speech" ELSE op
AtMostOneOperation == Cardinality({OperationGroup(op) : op \in run.ops}) <= 1

\* C6: a list of non-empty, trimmed, newline-free question strings written as
\* newline-delimited text, as a JSON array or as a JSON object {"questions": [...]}
\* is parsed back to the same list in the same order; of any text file the trimmed
\* non-blank lines are returned.
IsTrimmed(q) == Len(q) > 0 /\ ~IsSpace(q[1]) /\ ~IsSpace(q[Len(q)]) /\ ~Contains(q, "\n")
TrimmedLines(xs) == SelectSeq([i \in 1..Len(xs) |-> strip(xs[i])], LAMBDA q : q # <<>>)
UploadRoundTrips ==
    /\ /\ fn \in {"text round trip", "array round trip", "object round trip"}
       /\ \A i \in 1..Len(fn_in.v) : IsTrimmed(fn_in.v[i])
       => fn_out = StrList(fn_in.v)
    /\ fn = "text round trip" => fn_out = StrList(TrimmedLines(fn_in.v))

\* a list of two or more questions, one holding a quotation mark, came back from
\* the JSON object it was written to
ObjectRoundTripped ==
    /\ fn = "object round trip"
    /\ Len(fn_in.v) >= 2
    /\ \A i \in 1..Len(fn_in.v) : IsTrimmed(fn_in.v[i])
    /\ \E i \in 1..Len(fn_in.v) : Contains(fn_in.v[i], "\"")
    /\ fn_out = StrList(fn_in.v)

\* C7: generate_questions returns, in order, one question per non-blank line of the
\* response that contains '.' or '?', a leading number 'N.' removed and the rest of
\* the line intact, whatever follows a leading digit; other lines are dropped.
RECURSIVE LeadingDigits(_)
LeadingDigits(line) ==
    IF Len(line) > 0 /\ IsDigit(line[1]) THEN 1 + LeadingDigits(Tail(line)) ELSE 0
WithoutNumber(line) ==
    LET n == LeadingDigits(line)
    IN  IF n > 0 /\ Len(line) > n /\ line[n + 1] = "."
        THEN strip(SubSeq(line, n + 2, Len(line)))
        ELSE line
ExpectedQuestions(lines) ==
    LET stripped == [i \in 1..Len(lines) |-> strip(lines[i])]
        kept == SelectSeq(stripped, LAMBDA l : Contains(l, ".") \/ Contains(l, "?"))
    IN  [i \in 1..Len(kept) |-> WithoutNumber(kept[i])]
QuestionsParsedPerLine ==
    fn = "generate_questions" => fn_out.ret = StrList(ExpectedQuestions(fn_in.v))

\* C8: for a response whose non-blank lines are criteria prefixed by a checkbox
\* glyph, a bullet or a number 'N.', generate_rubric returns one criterion per such
\* line, in order, the prefix and the '**' / '__' marks removed; blank lines and
\* lines ending in ':' are dropped, and no returned criterion is empty.
ExpectedCriteria(lines) ==
    LET kept == SelectSeq(lines, LAMBDA l : Len(strip(LineText(l))) > 0
                                            /\ ~endswith(strip(LineText(l)), ":"))
    IN  [i \in 1..Len(kept) |->
            strip(remove2(remove2(kept[i].body, <<"*", "*">>), <<"_", "_">>))]
CriteriaParsedPerLine ==
    fn = "generate_rubric" => fn_out.ret = StrList(ExpectedCriteria(fn_in.v))

\* C9: the download data of the question list is the lines 'i. q_i' view mode
\* writes, in order, each with the complete text of q_i.
DownloadMatchesView ==
    fn = "view" =>
        /\ fn_out.lines = [i \in 1..Len(fn_in.v) |-> str(i) \o <<".", " ">> \o fn_in.v[i]]
        /\ fn_out.data = join(<<"\n">>, fn_out.lines)

\* C10: a click on the delete button of row i leaves the edit buffer as it was with
\* the element at position i removed, and the rerun that follows, which reads the
\* keyed text widgets back into the buffer, leaves it so.
DeleteRemovesRow ==
    [][/\ run'.event = "delete_question" =>
              session_state'.editing_questions_list
                  = Pop(session_state.editing_questions_list, run'.row)
       /\ run.event = "delete_question" /\ run'.event = "rerun" =>
              session_state'.editing_questions_list = session_state.editing_questions_list
       /\ run'.event = "delete_criterion" =>
              session_state'.editing_criteria = Pop(session_state.editing_criteria, run'.row)
       /\ run.event = "delete_criterion" /\ run'.event = "rerun" =>
              session_state'.editing_criteria = session_state.editing_criteria]_vars

\* the stored question lists: generated_questions and uploaded_questions
StoredLists(ss) ==
    <<IF Has(ss, "generated_questions") THEN ss.generated_questions ELSE <<>>,
      IF Has(ss, "uploaded_questions") THEN Strs(ss.uploaded_questions) ELSE <<>> >>

\* C11: leaving edit mode without saving, by Cancel or by the View Mode toggle,
\* removes the edit buffer and leaves the stored question lists as they were; and
\* the run that shows the editor after an Edit Questions click starts its buffer
\* from the questions stored then, so that no older draft can be saved over them.
LeavingDiscardsDraft ==
    [][/\ (\/ run'.event = "cancel_questions"
           \/ /\ run'.event = "edit_questions_btn"
              /\ Has(session_state, "editing_questions")
              /\ session_state.editing_questions)
          => /\ ~Has(session_state', "editing_questions_list")
             /\ StoredLists(session_state') = StoredLists(session_state)
       /\ (/\ run.event = "edit_questions_btn"
           /\ run'.event = "rerun"
           /\ Has(session_state', "editing_questions_list"))
          => session_state'.editing_questions_list = AllQuestions(session_state')]_vars

\* the value stored under key, as a sequence: empty when the key is absent
Stored(ss, key) == IF Has(ss, key) THEN <<ss[key]>> ELSE <<>>

\* C12: a Generate Rubric click, whatever prompt text is saved, either stores a new
\* non-empty criteria list or shows an error message and leaves rubric_criteria as
\* it was; no exception leaves generate_rubric.
RubricStoredOrReported ==
    [][run'.event = "generate_rubric" =>
          /\ run'.stop # "exception"
          /\ \/ /\ "Generated rubric" \in run'.success
                /\ Has(session_state', "rubric_criteria")
                /\ Len(session_state'.rubric_criteria) > 0
             \/ /\ run'.errors # {}
                /\ Stored(session_state', "rubric_criteria")
                       = Stored(session_state, "rubric_criteria")]_vars

\* the four external operations of a click: the message of a stored result, and the
\* message of a failed or empty one
SuccessMessage(event) ==
    CASE event = "generate_questions" -> "Generated questions"
      [] event = "generate_rubric" -> "Generated rubric"
      [] event = "generate_speech" -> "Speech generated successfully!"
      [] event = "transcribe" -> "Audio transcribed successfully!"
FailureMessage(event) ==
    CASE event = "generate_questions" -> "Failed to generate questions"
      [] event = "generate_rubric" -> "Failed to generate rubric"
      [] event = "generate_speech" -> "Failed to generate speech"
      [] event = "transcribe" -> "Failed to transcribe audio"
Results(ss) ==
    <<Stored(ss, "generated_questions"), Stored(ss, "rubric_criteria"),
      Stored(ss, "generated_audio"), Stored(ss, "transcript")>>

\* C13: a click on Generate Questions, Generate Rubric, Generate Speech or
\* Transcribe Audio whose operation gives no result to store (failure or an empty
\* result) leaves generated_questions, rubric_criteria, generated_audio and
\* transcript as they were before the click, and when the operation returned, its
\* failure message is shown.
FailureKeepsResults ==
    [][(/\ run'.event \in {"generate_questions", "generate_rubric", "generate_speech",
                           "transcribe"}
        /\ SuccessMessage(run'.event) \notin run'.success)
       => /\ Results(session_state') = Results(session_state)
          /\ run'.stop # "exception" => FailureMessage(run'.event) \in run'.errors]_vars

\* a transcription failed while a transcript was stored
TranscriptKeptOnFailure ==
    /\ run.event = "transcribe"
    /\ "Failed to transcribe audio" \in run.errors
    /\ Has(session_state, "transcript")

\* C14: generate_rubric and generate_speech are called, and transcription is asked
\* for, only on a page with a non-empty topic and at least one question in the
\* combined list, also after a Save that deleted every question.
OperationsGated ==
    /\ \A n \in run.asked : n >= 1 /\ Len(topic) > 0
    /\ \A i \in 1..Len(run.speech) : run.speech[i].questions >= 1 /\ Len(topic) > 0
    /\ "transcribe_audio" \in run.ops =>
           Len(topic) > 0 /\ Len(AllQuestions(session_state)) >= 1

\* the rubric was asked for on the questions a Save left
RubricAskedAfterSave ==
    /\ saved.set /\ Len(saved.v) >= 1
    /\ run.event = "generate_rubric"
    /\ run.asked = {Len(AllQuestions(session_state))}

\* the interactions with the question editor and with the rubric editor
QuestionEditorEvents ==
    {"edit_questions_btn", "question", "delete_question", "add_question",
     "save_questions", "cancel_questions"}
RubricEditorEvents ==
    {"edit_rubric_btn", "criterion", "delete_criterion", "add_criterion",
     "save_rubric", "cancel_rubric"}
\* the mode flag, the edit buffer and the stored lists of each editor
QuestionEditor(ss) ==
    <<Stored(ss, "editing_questions"), Stored(ss, "editing_questions_list"),
      Stored(ss, "generated_questions"), Stored(ss, "uploaded_questions")>>
RubricEditor(ss) ==
    <<Stored(ss, "editing_rubric"), Stored(ss, "editing_criteria"),
      Stored(ss, "rubric_criteria")>>

\* C15: an interaction with the question editor (toggle, edit, add, delete, save,
\* cancel) leaves the rubric editor's mode flag, edit buffer and rubric_criteria as
\* they were, and an interaction with the rubric editor leaves the question editor's
\* mode flag, edit buffer, generated_questions and uploaded_questions as they were.
EditorsIndependent ==
    [][/\ run'.event \in QuestionEditorEvents
          => RubricEditor(session_state') = RubricEditor(session_state)
       /\ run'.event \in RubricEditorEvents
          => QuestionEditor(session_state') = QuestionEditor(session_state)]_vars

\* C16: whenever the generated audio is offered for download, the number N of its
\* file name question_N_audio.mp3 is the position of the question whose text was sent
\* to speech synthesis for that audio, whatever was selected, edited or regenerated
\* since.
AudioNamedAfterItsQuestion ==
    run.audio_name # 0 =>
        /\ audio_of.set
        /\ run.audio_name <= Len(AllQuestions(session_state))
        /\ AllQuestions(session_state)[run.audio_name] = audio_of.text

\* C17: the stored selected_voice_id is a key of AVAILABLE_VOICES after every run, it
\* is the default voice (Daniel) when first stored and changes only when the user
\* selects a voice, and every call of generate_speech sends the stored
\* selected_voice_id.
VoiceIdValid ==
    [][/\ Has(session_state', "selected_voice_id") =>
            /\ \E i \in 1..Len(AVAILABLE_VOICES) :
                   AVAILABLE_VOICES[i] = session_state'.selected_voice_id
            /\ run'.event # "voice_selector" =>
                   session_state'.selected_voice_id =
                       IF Has(session_state, "selected_voice_id")
                       THEN session_state.selected_voice_id
                       ELSE "onwK4e9ZLuTAKqWW03F9"
       /\ \A i \in 1..Len(run'.speech) :
              /\ Has(session_state', "selected_voice_id")
              /\ run'.speech[i].voice_id = session_state'.selected_voice_id]_vars
\* speech was requested from the API with a voice other than the default
OtherVoiceSent ==
    /\ run.event = "generate_speech"
    /\ "generate_speech" \in run.called_api
    /\ Len(run.speech) = 1
    /\ run.speech[1].voice_id = session_state.selected_voice_id
    /\ run.speech[1].voice_id # "onwK4e9ZLuTAKqWW03F9"

====
